---- MODULE Spec2Model ----
(***************************************************************************)
(* Model of srt_timestamp_adjuster_gui.py: generate_new_srt_file,          *)
(* increment_line and the try/except of main, together with the parts of   *)
(* the Python runtime they rest on (str.split, str.strip, text-mode file   *)
(* reading and writing, datetime.strptime, timedelta, datetime addition    *)
(* and datetime.strftime).                                                 *)
(*                                                                         *)
(* A Python str is a sequence of one-character strings.  A time format is  *)
(* the sequence of its directives and literal characters.  offset_ms is an *)
(* unbounded Python int; TLC's integers are 32 bits wide, so the model     *)
(* carries it as the pair divmod(offset_ms, 86400000) = (days, ms), which  *)
(* is the decomposition timedelta() itself performs.                       *)
(***************************************************************************)
EXTENDS Integers, Sequences, FiniteSets, TLC

\* ------------------------------------------------------------------------
\* Bounds of the model
\* ------------------------------------------------------------------------
MaxLines == 2
MaxRuns == 2

\* ------------------------------------------------------------------------
\* Program constants
\* ------------------------------------------------------------------------
RANGE_MARKER == <<"-", "-", ">">>
DEFAULT_FORMAT == <<"%H", ":", "%M", ":", "%S", ",", "%f">>
JOINER == <<" ", "-", "-", ">", " ">>
LF == "\n"
CR == "\r"

\* datetime.strptime parses a bare time of day onto 1900-01-01.
EpochOrdinal == 693596
\* datetime.max.toordinal(), the ordinal of 9999-12-31.
MAXORDINAL == 3652059
\* timedelta refuses |days| beyond this.
MaxDeltaDays == 999999999
SecPerDay == 86400
MsPerDay == 86400000
UsPerSec == 1000000

\* ------------------------------------------------------------------------
\* str helpers
\* ------------------------------------------------------------------------
Digits == <<"0", "1", "2", "3", "4", "5", "6", "7", "8", "9">>
IsDigit(c) == \E k \in 1..10 : Digits[k] = c
DigitVal(c) == (CHOOSE k \in 1..10 : Digits[k] = c) - 1
DigitChar(n) == Digits[n + 1]
Whitespace == {" ", "\t", LF, CR}

RECURSIVE Concat(_)
Concat(ss) == IF ss = <<>> THEN <<>> ELSE Head(ss) \o Concat(Tail(ss))

\* s[i..] starts with p
StartsWithAt(s, i, p) ==
    /\ i + Len(p) - 1 <= Len(s)
    /\ \A k \in 1..Len(p) : s[i + k - 1] = p[k]

\* p in s
Contains(s, p) == \E i \in 1..Len(s) : StartsWithAt(s, i, p)

\* s.split(sep)
RECURSIVE Split(_, _)
Split(s, sep) ==
    IF ~Contains(s, sep) THEN <<s>>
    ELSE LET i == CHOOSE j \in 1..Len(s) :
                     /\ StartsWithAt(s, j, sep)
                     /\ \A k \in 1..(j - 1) : ~StartsWithAt(s, k, sep)
         IN <<SubSeq(s, 1, i - 1)>> \o Split(SubSeq(s, i + Len(sep), Len(s)), sep)

\* s.strip()
RECURSIVE LStrip(_)
LStrip(s) == IF s # <<>> /\ Head(s) \in Whitespace THEN LStrip(Tail(s)) ELSE s
RECURSIVE RStrip(_)
RStrip(s) == IF s # <<>> /\ s[Len(s)] \in Whitespace
             THEN RStrip(SubSeq(s, 1, Len(s) - 1)) ELSE s
Strip(s) == RStrip(LStrip(s))

\* sep.join(parts)
RECURSIVE Join(_, _)
Join(sep, parts) ==
    IF parts = <<>> THEN <<>>
    ELSE IF Len(parts) = 1 THEN parts[1]
    ELSE parts[1] \o sep \o Join(sep, Tail(parts))

\* int(s) for a string of digits
RECURSIVE ParseInt(_)
ParseInt(s) == IF s = <<>> THEN 0
               ELSE ParseInt(SubSeq(s, 1, Len(s) - 1)) * 10 + DigitVal(s[Len(s)])

\* '%0<w>d' % n
RECURSIVE ZeroPad(_, _)
ZeroPad(n, w) == IF w = 0 THEN <<>> ELSE ZeroPad(n \div 10, w - 1) \o <<DigitChar(n % 10)>>

\* ------------------------------------------------------------------------
\* datetime.strptime
\* ------------------------------------------------------------------------
\* The lengths, in the order the compiled regular expression tries them, of
\* the matches of one directive at s[i..]:
\*   %H  2[0-3]|[0-1]\d|\d      %M  [0-5]\d|\d
\*   %S  6[0-1]|[0-5]\d|\d      %f  [0-9]{1,6} (greedy)
DigitAt(s, i) == i <= Len(s) /\ IsDigit(s[i])
DigitIn(s, i, lo, hi) == DigitAt(s, i) /\ DigitVal(s[i]) >= lo /\ DigitVal(s[i]) <= hi

DirectiveLens(d, s, i) ==
    IF d = "%H" THEN
        (IF (DigitIn(s, i, 2, 2) /\ DigitIn(s, i + 1, 0, 3))
            \/ (DigitIn(s, i, 0, 1) /\ DigitAt(s, i + 1)) THEN <<2>> ELSE <<>>)
        \o (IF DigitAt(s, i) THEN <<1>> ELSE <<>>)
    ELSE IF d = "%M" THEN
        (IF DigitIn(s, i, 0, 5) /\ DigitAt(s, i + 1) THEN <<2>> ELSE <<>>)
        \o (IF DigitAt(s, i) THEN <<1>> ELSE <<>>)
    ELSE IF d = "%S" THEN
        (IF (DigitIn(s, i, 6, 6) /\ DigitIn(s, i + 1, 0, 1))
            \/ (DigitIn(s, i, 0, 5) /\ DigitAt(s, i + 1)) THEN <<2>> ELSE <<>>)
        \o (IF DigitAt(s, i) THEN <<1>> ELSE <<>>)
    ELSE IF d = "%f" THEN
        LET most == CHOOSE n \in 0..6 :
                        /\ \A k \in 0..(n - 1) : DigitAt(s, i + k)
                        /\ (n = 6 \/ ~DigitAt(s, i + n))
        IN [k \in 1..most |-> most - k + 1]
    ELSE \* a literal character
        IF i <= Len(s) /\ s[i] = d THEN <<1>> ELSE <<>>

IsDirective(d) == d \in {"%H", "%M", "%S", "%f"}
NoMatch == [found |-> FALSE]

\* re.match of the compiled format against s from position i on, with the
\* backtracking of the regular expression engine: the first alternative of
\* format[k] after which the rest of the format still matches.
RECURSIVE ReMatch(_, _, _, _)
RECURSIVE ReTry(_, _, _, _, _)
ReMatch(format, k, s, i) ==
    IF k > Len(format) THEN [found |-> TRUE, end |-> i, groups |-> <<>>]
    ELSE ReTry(format, k, s, i, DirectiveLens(format[k], s, i))
ReTry(format, k, s, i, lens) ==
    IF lens = <<>> THEN NoMatch
    ELSE LET rest == ReMatch(format, k + 1, s, i + Head(lens))
         IN IF rest.found
            THEN [found |-> TRUE, end |-> rest.end,
                  groups |-> IF IsDirective(format[k])
                             THEN <<[key |-> format[k],
                                     text |-> SubSeq(s, i, i + Head(lens) - 1)]>>
                                  \o rest.groups
                             ELSE rest.groups]
            ELSE ReTry(format, k, s, i, Tail(lens))

\* found_dict[key] converted by _strptime, the default when the format has
\* no such directive
GroupValue(groups, key, default) ==
    IF \E g \in 1..Len(groups) : groups[g].key = key
    THEN LET g == CHOOSE x \in 1..Len(groups) : groups[x].key = key
             t == groups[g].text
         IN IF key = "%f"
            THEN ParseInt(t \o [z \in 1..(6 - Len(t)) |-> "0"])
            ELSE ParseInt(t)
    ELSE default

ValueErrorOf(msg, data) == [ok |-> FALSE, type |-> "ValueError", msg |-> msg, data |-> data]
OverflowErrorOf(msg) == [ok |-> FALSE, type |-> "OverflowError", msg |-> msg, data |-> <<>>]

\* datetime.strptime(data_string, format)
strptime(data_string, format) ==
    LET found == ReMatch(format, 1, data_string, 1)
    IN IF ~found.found
       THEN ValueErrorOf("time data does not match format", data_string)
       ELSE IF found.end # Len(data_string) + 1
       THEN ValueErrorOf("unconverted data remains",
                         SubSeq(data_string, found.end, Len(data_string)))
       ELSE LET second == GroupValue(found.groups, "%S", 0)
            IN IF second > 59
               THEN ValueErrorOf("second must be in 0..59", <<>>)
               ELSE [ok |-> TRUE,
                     days |-> EpochOrdinal,
                     hour |-> GroupValue(found.groups, "%H", 0),
                     minute |-> GroupValue(found.groups, "%M", 0),
                     second |-> second,
                     microsecond |-> GroupValue(found.groups, "%f", 0)]

\* ------------------------------------------------------------------------
\* timedelta, datetime + timedelta, datetime.strftime
\* ------------------------------------------------------------------------
\* The Python int offset_ms, as divmod(offset_ms, MsPerDay)
OffsetOf(days, ms) == [days |-> days, ms |-> ms]
OffsetSum(a, b) ==
    OffsetOf(a.days + b.days + (a.ms + b.ms) \div MsPerDay, (a.ms + b.ms) % MsPerDay)
OffsetNeg(a) ==
    IF a.ms = 0 THEN OffsetOf(0 - a.days, 0) ELSE OffsetOf(0 - a.days - 1, MsPerDay - a.ms)

\* timedelta(milliseconds=offset_ms), normalised to days, seconds, microseconds
timedelta(offset_ms) ==
    IF offset_ms.days > MaxDeltaDays \/ offset_ms.days < 0 - MaxDeltaDays
    THEN OverflowErrorOf("days must have magnitude <= 999999999")
    ELSE [ok |-> TRUE,
          days |-> offset_ms.days,
          seconds |-> offset_ms.ms \div 1000,
          microseconds |-> (offset_ms.ms % 1000) * 1000]

\* datetime.__add__(ts, offset)
datetime_add(ts, offset) ==
    LET us == ts.microsecond + offset.microseconds
        secs == ts.hour * 3600 + ts.minute * 60 + ts.second + offset.seconds
                + us \div UsPerSec
        days == ts.days + offset.days + secs \div SecPerDay
        sod == secs % SecPerDay
    IN IF days > 0 /\ days <= MAXORDINAL
       THEN [ok |-> TRUE,
             days |-> days,
             hour |-> sod \div 3600,
             minute |-> (sod % 3600) \div 60,
             second |-> sod % 60,
             microsecond |-> us % UsPerSec]
       ELSE OverflowErrorOf("date value out of range")

\* one directive or literal of the format, written for the datetime dt
FormatField(dt, d) ==
    IF d = "%H" THEN ZeroPad(dt.hour, 2)
    ELSE IF d = "%M" THEN ZeroPad(dt.minute, 2)
    ELSE IF d = "%S" THEN ZeroPad(dt.second, 2)
    ELSE IF d = "%f" THEN ZeroPad(dt.microsecond, 6)
    ELSE <<d>>

\* datetime.strftime(dt, format)
strftime(dt, format) == Concat([k \in 1..Len(format) |-> FormatField(dt, format[k])])

\* ------------------------------------------------------------------------
\* increment_line
\* ------------------------------------------------------------------------
\* ts1, ts2 = (datetime.strptime(x.strip(), time_format) for x in ...):
\* unpacking pulls the generator's items one at a time, a third one to find
\* out whether there are too many; the first item that raises ends it.
RECURSIVE UnpackTwo(_, _, _)
UnpackTwo(parts, time_format, k) ==
    IF k > Len(parts)
    THEN IF k = 3 THEN [ok |-> TRUE]
         ELSE ValueErrorOf("not enough values to unpack", <<>>)
    ELSE LET ts == strptime(Strip(parts[k]), time_format)
         IN IF ~ts.ok THEN ts
            ELSE IF k = 3 THEN ValueErrorOf("too many values to unpack", <<>>)
            ELSE UnpackTwo(parts, time_format, k + 1)

\* increment_line without the newline it appends
increment_line_bare(line, offset_ms, time_format) ==
    LET parts == Split(line, RANGE_MARKER)
        unpacked == UnpackTwo(parts, time_format, 1)
        offset == timedelta(offset_ms)
    IN IF ~unpacked.ok THEN unpacked
       ELSE IF ~offset.ok THEN offset
       ELSE LET new1 == datetime_add(strptime(Strip(parts[1]), time_format), offset)
                new2 == datetime_add(strptime(Strip(parts[2]), time_format), offset)
            IN IF ~new1.ok THEN new1
               ELSE IF ~new2.ok THEN new2
               ELSE [ok |-> TRUE,
                     line |-> Join(JOINER, <<strftime(new1, time_format),
                                             strftime(new2, time_format)>>)]

increment_line(line, offset_ms, time_format) ==
    LET parts == Split(line, RANGE_MARKER)
        unpacked == UnpackTwo(parts, time_format, 1)
    IN IF ~unpacked.ok THEN unpacked
       ELSE LET ts1 == strptime(Strip(parts[1]), time_format)
                ts2 == strptime(Strip(parts[2]), time_format)
                offset == timedelta(offset_ms)
            IN IF ~offset.ok THEN offset
               ELSE LET new1 == datetime_add(ts1, offset)
                        new2 == datetime_add(ts2, offset)
                    IN IF ~new1.ok THEN new1
                       ELSE IF ~new2.ok THEN new2
                       ELSE [ok |-> TRUE,
                             line |-> Join(JOINER, <<strftime(new1, time_format),
                                                     strftime(new2, time_format)>>)
                                      \o <<LF>>]

\* ------------------------------------------------------------------------
\* Text-mode files (newline=None)
\* ------------------------------------------------------------------------
\* Reading translates "\r\n" and a lone "\r" to "\n"; iterating the file
\* yields the lines, each with its "\n", the last one possibly without.
RECURSIVE ReadTranslate(_)
ReadTranslate(bytes) ==
    IF \A j \in 1..Len(bytes) : bytes[j] # CR THEN bytes
    ELSE LET j == CHOOSE x \in 1..Len(bytes) :
                      bytes[x] = CR /\ \A y \in 1..(x - 1) : bytes[y] # CR
             n == IF j < Len(bytes) /\ bytes[j + 1] = LF THEN 2 ELSE 1
         IN SubSeq(bytes, 1, j - 1) \o <<LF>>
            \o ReadTranslate(SubSeq(bytes, j + n, Len(bytes)))

RECURSIVE SplitLines(_)
SplitLines(text) ==
    IF text = <<>> THEN <<>>
    ELSE IF ~Contains(text, <<LF>>) THEN <<text>>
    ELSE LET i == CHOOSE j \in 1..Len(text) :
                      text[j] = LF /\ \A k \in 1..(j - 1) : text[k] # LF
         IN <<SubSeq(text, 1, i)>> \o SplitLines(SubSeq(text, i + 1, Len(text)))

FileLines(bytes) == SplitLines(ReadTranslate(bytes))

\* Writing translates every "\n" to os.linesep.
WriteTranslate(text, linesep) ==
    LET ls == SplitLines(text)
    IN Concat([k \in 1..Len(ls) |->
                  IF ls[k][Len(ls[k])] = LF
                  THEN SubSeq(ls[k], 1, Len(ls[k]) - 1) \o linesep
                  ELSE ls[k]])

\* ------------------------------------------------------------------------
\* Inputs
\* ------------------------------------------------------------------------
\* A timestamp written in the layout HH:MM:SS,mmm of SRT files
SrtTime(h, m, sec, ms) ==
    ZeroPad(h, 2) \o <<":">> \o ZeroPad(m, 2) \o <<":">> \o ZeroPad(sec, 2)
    \o <<",">> \o ZeroPad(ms, 3)
SrtRange(t1, t2) == t1 \o JOINER \o t2

LineExample == SrtRange(SrtTime(0, 0, 1, 0), SrtTime(0, 0, 3, 500))
LineLate == SrtRange(SrtTime(23, 59, 59, 0), SrtTime(23, 59, 59, 999))
LineCaption == <<"H", "i">>
LineBad == <<"b", "a", "d">> \o JOINER \o SrtTime(0, 0, 1, 0)
LineThree == SrtTime(0, 0, 1, 0) \o JOINER \o SrtTime(0, 0, 2, 0) \o JOINER
             \o SrtTime(0, 0, 3, 0)
LineTight == <<"1", ":", "2", ":", "3">> \o RANGE_MARKER \o <<"\t", "0", "4", ":", "5", ":", "0", "6">>

SampleLines == {LineExample, LineLate, LineCaption, LineBad, LineThree, LineTight}
Terminators == {<<LF>>, <<CR, LF>>}
LineSeps == {<<LF>>, <<CR, LF>>}
SECONDS_FORMAT == <<"%H", ":", "%M", ":", "%S">>
TimeFormats == {DEFAULT_FORMAT, SECONDS_FORMAT}

\* +1500 ms, -1500 ms, and 2000000 days either way
Offsets == {OffsetOf(0, 1500), OffsetOf(-1, MsPerDay - 1500),
            OffsetOf(2000000, 0), OffsetOf(-2000000, 0)}

\* The bytes of a file of the given lines, each ended by term, the last one
\* only when final_newline
FileBytes(ls, term, final_newline) ==
    Concat([k \in 1..Len(ls) |->
               ls[k] \o (IF k < Len(ls) \/ final_newline THEN term ELSE <<>>)])

LineSeqs(n) == UNION {[1..k -> SampleLines] : k \in 0..n}
InputFiles ==
    {FileBytes(ls, term, fin) : ls \in LineSeqs(MaxLines), term \in Terminators,
                                fin \in BOOLEAN}

OldBytes == <<"o", "l", "d", LF>>
NoFile == [exists |-> FALSE, bytes |-> <<>>]
FileOf(bytes) == [exists |-> TRUE, bytes |-> bytes]
NoError == [type |-> "None"]

\* ------------------------------------------------------------------------
\* State
\* ------------------------------------------------------------------------
VARIABLES
    in_file,      \* the file at srt_file
    out_file,     \* the file at output_srt_file
    old_out,      \* out_file as it was when the run began
    offset_ms, time_format,
    linesep,      \* os.linesep of the platform
    pc,           \* where main is
    f_open, o_open, \* whether the handles f and o are open
    f_iter,       \* the lines f has still to yield
    i,            \* enumerate's index of the next line
    bad_line,     \* i and line of the iteration that raised
    lines,        \* the list lines
    w,            \* how many of lines have been written
    outcome,      \* how main ended
    err,          \* the exception main ended with
    run, prev     \* the number of this run; input and offset of the run before

vars == <<in_file, out_file, old_out, offset_ms, time_format, linesep, pc, f_open,
          o_open, f_iter, i, bad_line, lines, w, outcome, err, run, prev>>

NoPrev == [bytes |-> <<>>, offset_ms |-> OffsetOf(0, 0)]
NoBadLine == [i |-> -1, line |-> <<>>]

InitWith(files, formats, seps, outs) ==
    /\ in_file \in {NoFile} \cup {FileOf(b) : b \in files}
    /\ out_file \in outs
    /\ old_out = out_file
    /\ offset_ms \in Offsets
    /\ time_format \in formats
    /\ linesep \in seps
    /\ pc = "call"
    /\ f_open = FALSE /\ o_open = FALSE
    /\ f_iter = <<>> /\ i = 0 /\ bad_line = NoBadLine
    /\ lines = <<>> /\ w = 0
    /\ outcome = "running" /\ err = NoError
    /\ run = 1 /\ prev = NoPrev

Init == InitWith(InputFiles, TimeFormats, LineSeps, {NoFile, FileOf(OldBytes)})

\* ------------------------------------------------------------------------
\* generate_new_srt_file, called from main
\* ------------------------------------------------------------------------
\* OpenInput with the output opened in the same step
OpenBoth ==
    /\ pc = "call" /\ in_file.exists
    /\ f_open' = TRUE
    /\ f_iter' = FileLines(in_file.bytes)
    /\ i' = 0
    /\ lines' = <<>>
    /\ o_open' = TRUE
    /\ out_file' = FileOf(<<>>)
    /\ pc' = "reading"
    /\ UNCHANGED <<in_file, old_out, offset_ms, time_format, linesep,
                   bad_line, w, outcome, err, run, prev>>

\* open(srt_file, 'r')
OpenInput ==
    /\ pc = "call" /\ in_file.exists
    /\ f_open' = TRUE
    /\ f_iter' = FileLines(in_file.bytes)
    /\ i' = 0
    /\ lines' = <<>>
    /\ pc' = "reading"
    /\ UNCHANGED <<in_file, out_file, old_out, offset_ms, time_format, linesep, o_open,
                   bad_line, w, outcome, err, run, prev>>

\* open(srt_file, 'r') raises FileNotFoundError, which main does not catch
OpenInputFails ==
    /\ pc = "call" /\ ~in_file.exists
    /\ pc' = "raised"
    /\ outcome' = "FileNotFoundError"
    /\ err' = [type |-> "FileNotFoundError", msg |-> "No such file or directory",
               data |-> <<>>, cause |-> NoError]
    /\ UNCHANGED <<in_file, out_file, old_out, offset_ms, time_format, linesep, f_open,
                   o_open, f_iter, i, bad_line, lines, w, run, prev>>

\* one iteration of the for loop, on a line with the range marker
ReadRangeLine ==
    /\ pc = "reading" /\ f_iter # <<>>
    /\ Contains(Head(f_iter), RANGE_MARKER)
    /\ LET new_line == increment_line(Head(f_iter), offset_ms, time_format)
       IN /\ new_line.ok
          /\ lines' = Append(lines, new_line.line)
    /\ f_iter' = Tail(f_iter)
    /\ i' = i + 1
    /\ UNCHANGED <<in_file, out_file, old_out, offset_ms, time_format, linesep, pc,
                   f_open, o_open, bad_line, w, outcome, err, run, prev>>

\* What main does with an exception e of generate_new_srt_file: a ValueError
\* or TypeError is replaced by the ValueError raised from it, anything else
\* passes through.
\* MainError without the except clause: every exception passes through
MainErrorUncaught(e) == [type |-> e.type, msg |-> e.msg, data |-> e.data, cause |-> NoError]

MainError(e) ==
    IF e.type \in {"ValueError", "TypeError"}
    THEN [type |-> "ValueError", msg |-> "Failed to parse SRT file: incorrect format",
          data |-> <<>>, cause |-> e]
    ELSE [type |-> e.type, msg |-> e.msg, data |-> e.data, cause |-> NoError]
MainOutcome(e) ==
    IF e.type \in {"ValueError", "TypeError"} THEN "ParseError" ELSE e.type

\* one iteration of the for loop in which increment_line raises: the with
\* block closes f and the exception reaches the try of main
ReadRangeLineRaises ==
    /\ pc = "reading" /\ f_iter # <<>>
    /\ Contains(Head(f_iter), RANGE_MARKER)
    /\ LET new_line == increment_line(Head(f_iter), offset_ms, time_format)
       IN /\ ~new_line.ok
          /\ err' = MainError(new_line)
          /\ outcome' = MainOutcome(new_line)
    /\ bad_line' = [i |-> i, line |-> Head(f_iter)]
    /\ f_open' = FALSE
    /\ pc' = "raised"
    /\ UNCHANGED <<in_file, out_file, old_out, offset_ms, time_format, linesep, o_open,
                   f_iter, i, lines, w, run, prev>>

\* one iteration of the for loop, on a line without the range marker
ReadPassLine ==
    /\ pc = "reading" /\ f_iter # <<>>
    /\ ~Contains(Head(f_iter), RANGE_MARKER)
    /\ lines' = Append(lines, Head(f_iter))
    /\ f_iter' = Tail(f_iter)
    /\ i' = i + 1
    /\ UNCHANGED <<in_file, out_file, old_out, offset_ms, time_format, linesep, pc,
                   f_open, o_open, bad_line, w, outcome, err, run, prev>>

\* the for loop ends and the first with block closes f
CloseInput ==
    /\ pc = "reading" /\ f_iter = <<>>
    /\ f_open' = FALSE
    /\ pc' = "opening"
    /\ UNCHANGED <<in_file, out_file, old_out, offset_ms, time_format, linesep, o_open,
                   f_iter, i, bad_line, lines, w, outcome, err, run, prev>>

\* open(output_srt_file, 'w') creates or truncates the file
OpenOutput ==
    /\ pc = "opening"
    /\ o_open' = TRUE
    /\ out_file' = FileOf(<<>>)
    /\ w' = 0
    /\ pc' = "writing"
    /\ UNCHANGED <<in_file, old_out, offset_ms, time_format, linesep, f_open, f_iter, i,
                   bad_line, lines, outcome, err, run, prev>>

\* o.write(line)
WriteLine ==
    /\ pc = "writing" /\ w < Len(lines)
    /\ out_file' = FileOf(out_file.bytes \o WriteTranslate(lines[w + 1], linesep))
    /\ w' = w + 1
    /\ UNCHANGED <<in_file, old_out, offset_ms, time_format, linesep, pc, f_open, o_open,
                   f_iter, i, bad_line, lines, outcome, err, run, prev>>

\* the second with block closes o, generate_new_srt_file returns and main
\* prints its completion message
CloseOutput ==
    /\ pc = "writing" /\ w = Len(lines)
    /\ o_open' = FALSE
    /\ pc' = "done"
    /\ outcome' = "success"
    /\ UNCHANGED <<in_file, out_file, old_out, offset_ms, time_format, linesep, f_open,
                   f_iter, i, bad_line, lines, w, err, run, prev>>

Next ==
    \/ OpenInput
    \/ OpenInputFails
    \/ ReadRangeLine
    \/ ReadRangeLineRaises
    \/ ReadPassLine
    \/ CloseInput
    \/ OpenOutput
    \/ WriteLine
    \/ CloseOutput

Spec == Init /\ [][Next]_vars

\* ------------------------------------------------------------------------
\* A second run of the program on the output of the first
\* ------------------------------------------------------------------------
\* main is run again, with the same time format, on the file the run before
\* wrote, to an output path in the state the first one was in
Rerun ==
    /\ pc = "done" /\ run < MaxRuns
    /\ \E d \in Offsets : offset_ms' = d
    /\ prev' = [bytes |-> in_file.bytes, offset_ms |-> offset_ms]
    /\ in_file' = out_file
    /\ out_file' = old_out
    /\ run' = run + 1
    /\ pc' = "call"
    /\ f_iter' = <<>> /\ i' = 0 /\ lines' = <<>> /\ w' = 0
    /\ outcome' = "running"
    /\ UNCHANGED <<old_out, time_format, linesep, f_open, o_open, bad_line, err>>

ChainFiles ==
    {FileBytes(ls, <<LF>>, TRUE) : ls \in LineSeqs(MaxLines)}
InitChain == InitWith(ChainFiles, {DEFAULT_FORMAT}, {<<LF>>}, {NoFile})

NextChain == Next \/ Rerun

SpecChain == InitChain /\ [][NextChain]_vars

\* ------------------------------------------------------------------------
\* The whole of generate_new_srt_file as a function of the input file
\* ------------------------------------------------------------------------
RECURSIVE ShiftLines(_, _, _)
ShiftLines(ls, offset, format) ==
    IF ls = <<>> THEN [ok |-> TRUE, lines |-> <<>>]
    ELSE LET new_line == IF Contains(Head(ls), RANGE_MARKER)
                         THEN increment_line(Head(ls), offset, format)
                         ELSE [ok |-> TRUE, line |-> Head(ls)]
         IN IF ~new_line.ok THEN new_line
            ELSE LET rest == ShiftLines(Tail(ls), offset, format)
                 IN IF ~rest.ok THEN rest
                    ELSE [ok |-> TRUE, lines |-> <<new_line.line>> \o rest.lines]

ShiftFile(bytes, offset, format, sep) ==
    LET r == ShiftLines(FileLines(bytes), offset, format)
    IN IF ~r.ok THEN r
       ELSE [ok |-> TRUE, bytes |-> WriteTranslate(Concat(r.lines), sep)]

\* ------------------------------------------------------------------------
\* Vocabulary of the properties
\* ------------------------------------------------------------------------
\* The lines of a file as they stand in it, each with the terminator it has
\* there: "\r\n", "\n", "\r" or none
RECURSIVE RawLines(_)
RawLines(bytes) ==
    IF bytes = <<>> THEN <<>>
    ELSE IF \A j \in 1..Len(bytes) : bytes[j] \notin {LF, CR}
    THEN <<[text |-> bytes, term |-> <<>>]>>
    ELSE LET j == CHOOSE x \in 1..Len(bytes) :
                      bytes[x] \in {LF, CR} /\ \A y \in 1..(x - 1) : bytes[y] \notin {LF, CR}
             n == IF bytes[j] = CR /\ j < Len(bytes) /\ bytes[j + 1] = LF THEN 2 ELSE 1
         IN <<[text |-> SubSeq(bytes, 1, j - 1), term |-> SubSeq(bytes, j, j + n - 1)]>>
            \o RawLines(SubSeq(bytes, j + n, Len(bytes)))

InLines == FileLines(in_file.bytes)
OutLines == FileLines(out_file.bytes)
IsRange(line) == Contains(line, RANGE_MARKER)

\* Both timestamps of a range line parse under the format
Parsable(line, format) ==
    LET parts == Split(line, RANGE_MARKER)
    IN /\ Len(parts) = 2
       /\ strptime(Strip(parts[1]), format).ok
       /\ strptime(Strip(parts[2]), format).ok
Malformed(line, format) == IsRange(line) /\ ~Parsable(line, format)

\* The time of day of the n-th timestamp of a range line: <<second of the
\* day, microsecond>>
TimeOfDay(line, n, format) ==
    LET ts == strptime(Strip(Split(line, RANGE_MARKER)[n]), format)
    IN <<ts.hour * 3600 + ts.minute * 60 + ts.second, ts.microsecond>>
\* (tod + offset) mod 24h
Advanced(tod, offset) ==
    LET us == tod[2] + (offset.ms % 1000) * 1000
    IN <<(tod[1] + offset.ms \div 1000 + us \div UsPerSec) % SecPerDay, us % UsPerSec>>
\* adding the offset to the n-th timestamp of the line stays within the day
NoWrap(line, n, offset, format) ==
    LET tod == TimeOfDay(line, n, format)
        ms == tod[1] * 1000 + tod[2] \div 1000 + offset.ms
    IN \/ offset.days = 0 /\ ms < MsPerDay
       \/ offset.days = -1 /\ ms >= MsPerDay

\* A time of day of whole milliseconds in the layout HH:MM:SS,mmm
MsTime(t) == SrtTime(t \div 3600000, (t \div 60000) % 60, (t \div 1000) % 60, t % 1000)
\* the small offsets, as a number of milliseconds
SmallOffset(offset) == offset.days * MsPerDay + offset.ms
\* <<start, end>> in milliseconds of the sample lines in the SRT layout
SrtRanges == {<<1000, 3500>>, <<86399000, 86399999>>}

\* ------------------------------------------------------------------------
\* Properties
\* ------------------------------------------------------------------------
\* C1: a range line whose timestamps are written HH:MM:SS,mmm, shifted under
\* the default format by an offset that wraps neither timestamp, becomes the
\* line of the two advanced timestamps written HH:MM:SS,mmm, joined by
\* " --> " and followed by the newline.
C1_ShiftedInSrtLayout ==
    \A k \in 1..Len(lines) : \A r \in SrtRanges :
        LET text == SrtRange(MsTime(r[1]), MsTime(r[2]))
            d == SmallOffset(offset_ms)
        IN (/\ time_format = DEFAULT_FORMAT
            /\ offset_ms.days \in {0, -1}
            /\ InLines[k] \in {text, text \o <<LF>>}
            /\ r[1] + d >= 0 /\ r[2] + d < MsPerDay)
           => lines[k] = SrtRange(MsTime(r[1] + d), MsTime(r[2] + d)) \o <<LF>>

\* C2: when the run succeeds the output file has as many lines as the input
\* file, and its k-th line is the k-th input line, shifted if it is a range
\* line and as it was read if not.
C2_LineCountPreserved ==
    pc = "done" =>
        LET inl == InLines
            outl == OutLines
        IN /\ Len(outl) = Len(inl)
           /\ \A k \in 1..Len(inl) :
                  outl[k] = IF IsRange(inl[k])
                            THEN increment_line(inl[k], offset_ms, time_format).line
                            ELSE inl[k]
C2_Witness ==
    /\ pc = "done"
    /\ LET inl == InLines
       IN \E j, k \in 1..Len(inl) : j < k /\ IsRange(inl[j]) /\ ~IsRange(inl[k])

\* C3: every input line without the range marker stands in the output file
\* byte for byte, its terminator included.
C3_PassThroughIdentical ==
    pc = "done" =>
        \A k \in 1..Len(RawLines(in_file.bytes)) :
            ~IsRange(RawLines(in_file.bytes)[k].text) =>
                /\ k <= Len(RawLines(out_file.bytes))
                /\ RawLines(out_file.bytes)[k] = RawLines(in_file.bytes)[k]

\* C4: a range line whose timestamps parse never makes the run fail, whatever
\* the offset, and under the default format each written timestamp is the
\* time of day (t + offset) mod 24h.
C4_AnyOffsetWraps ==
    /\ (pc = "raised" /\ bad_line.i >= 0) => ~Parsable(bad_line.line, time_format)
    /\ \A k \in 1..Len(lines) : \A n \in 1..2 :
           (time_format = DEFAULT_FORMAT /\ IsRange(InLines[k])) =>
               TimeOfDay(lines[k], n, time_format)
                   = Advanced(TimeOfDay(InLines[k], n, time_format), offset_ms)

\* C5: when some line with the range marker does not split into two parts
\* that parse, the run ends in the parse error, and it is the first such line
\* that raised it.
C5_ParseErrorReported ==
    (/\ pc \in {"done", "raised"}
     /\ in_file.exists
     /\ \E k \in 1..Len(InLines) : Malformed(InLines[k], time_format))
    => /\ outcome = "ParseError"
       /\ bad_line.i + 1 = CHOOSE k \in 1..Len(InLines) :
                               /\ Malformed(InLines[k], time_format)
                               /\ \A j \in 1..(k - 1) : ~Malformed(InLines[j], time_format)

\* C6: shifting by +d and then the output by -d, neither wrapping, gives
\* back every range line character for character.
C6_RoundTrip ==
    (/\ pc = "done" /\ run >= 2
     /\ offset_ms = OffsetNeg(prev.offset_ms))
    => \A k \in 1..Len(FileLines(prev.bytes)) :
           LET orig == FileLines(prev.bytes)[k]
           IN (/\ IsRange(orig)
               /\ \A n \in 1..2 : /\ NoWrap(orig, n, prev.offset_ms, time_format)
                                  /\ NoWrap(InLines[k], n, offset_ms, time_format))
              => OutLines[k] = orig

\* C7: the output line of a range line ends with the terminator the input
\* line had: "\n", "\r\n" or none.
C7_TerminatorKept ==
    pc = "done" =>
        \A k \in 1..Len(RawLines(in_file.bytes)) :
            IsRange(RawLines(in_file.bytes)[k].text) =>
                /\ k <= Len(RawLines(out_file.bytes))
                /\ RawLines(out_file.bytes)[k].term = RawLines(in_file.bytes)[k].term

C9_OutputOpenedLast ==
    /\ ~(f_open /\ o_open)
    /\ o_open => (f_iter = <<>> /\ Len(lines) = Len(InLines))
    /\ out_file # old_out => pc \in {"writing", "done"}
    /\ outcome \in {"FileNotFoundError", "ParseError"} => out_file = old_out
C9_Witness ==
    /\ outcome = "ParseError"
    /\ Len(lines) >= 1
    /\ old_out.exists /\ out_file = old_out

\* C10: under the default format, shifting by d1 and then the output by d2
\* writes the file that one shift of the first input by d1 + d2 writes.
C10_ShiftsCompose ==
    (pc = "done" /\ run >= 2 /\ time_format = DEFAULT_FORMAT) =>
        LET single == ShiftFile(prev.bytes, OffsetSum(prev.offset_ms, offset_ms),
                                time_format, linesep)
        IN single.ok /\ single.bytes = out_file.bytes

====
